---- MODULE Spec2Model ----
(***************************************************************************)
(* The asynchronous job orchestration of the financial document analyzer:  *)
(* the submission endpoint (main.py), the Celery task                      *)
(* analyze_financial_document_task (celery_app.py), the job table          *)
(* (models.py) and the broker / result backend the task runs on.           *)
(*                                                                         *)
(* Time is counted in units of five minutes, the largest unit in which     *)
(* both time limits of celery_app.py are whole numbers.                    *)
(***************************************************************************)
EXTENDS Integers, FiniteSets, Sequences, TLC

\* ------------------------------------------------------------------ bounds
MaxJobs == 1        \* submissions made in one behaviour of Spec
MaxCopies == 2      \* copies of one job's message the broker hands out
MaxClock == 6       \* last clock value
MaxDays == 1        \* largest retention window given to cleanup_old_tasks
MaxSweepJobs == 2   \* rows in the table a cleanup run starts from
MaxSweepTime == 1   \* last completion time in that table

\* -------------------------------------------------------- program constants
NumWorkers == 2     \* worker.py: --concurrency=2
SoftLimit == 5      \* task_soft_time_limit = 25 * 60 s
HardLimit == 6      \* task_time_limit = 30 * 60 s
TicksPerDay == 288  \* timedelta(days=1)

NoTime == -1        \* NULL in a DateTime / Float column
NoId == 0           \* NULL in celery_task_id

Jobs == 1..MaxJobs
Workers == 1..NumWorkers

VARIABLES
    now,          \* datetime.utcnow()
    tasks,        \* table analysis_tasks: id -> row
    store_up,     \* whether the database answers
    files,        \* stored documents data/financial_document_<id>.pdf
    history,      \* table user_analysis_history: the analysis_task_id of each row
    queue,        \* broker: copies of each job's message waiting for a worker
    deliveries,   \* how many times each job's message was handed to a worker
    celery_meta,  \* result backend: message id -> task state and return value
    nextId,       \* the next uuid4
    sub_pc,       \* analyze_document: position of the request being served
    sub_job,      \* analyze_document: task_record.id
    sub_query,    \* analyze_document: the query field as the client sent it
    pc,           \* analyze_financial_document_task: position, per pool process
    cur,          \* its argument task_id
    task_record,  \* its ORM object: the row as loaded, or expired
    t0,           \* when the pool started the task (time limits count from here)
    pending_completed_at,  \* task_record.completed_at set and not yet flushed
    exc,          \* the exception the except block handles
    sweep_pc,     \* manage_db.py: the cleanup function that is running
    sweep_cutoff, \* cutoff_date of cleanup_old_tasks
    sweep_todo,   \* its tasks the for loop has not reached yet
    sweep_tasks,  \* the tasks its session holds as deleted, not yet committed
    sweep_hist,   \* the history rows its session holds as deleted
    sweep_kept,   \* the documents whose os.remove raised
    response      \* what the last GET request was and what it was answered

vars == <<now, tasks, store_up, files, history, queue, deliveries, celery_meta, nextId,
          sub_pc, sub_job, sub_query, pc, cur, task_record, t0, pending_completed_at, exc,
          sweep_pc, sweep_cutoff, sweep_todo, sweep_tasks, sweep_hist, sweep_kept,
          response>>

subVars == <<sub_pc, sub_job, sub_query>>
workerVars == <<pc, cur, task_record, t0, pending_completed_at, exc>>
sweepVars == <<sweep_pc, sweep_cutoff, sweep_todo, sweep_tasks, sweep_hist, sweep_kept>>

\* ------------------------------------------------------------------- rows

\* AnalysisTask(status="pending") as inserted by analyze_document
NewRow ==
    [status |-> "pending", started_at |-> NoTime, completed_at |-> NoTime,
     analysis_result |-> "None", error_message |-> "None",
     duration_seconds |-> NoTime, celery_task_id |-> NoId]

\* An ORM object whose attributes were expired by commit or rollback
Expired ==
    [status |-> "expired", started_at |-> NoTime, completed_at |-> NoTime,
     analysis_result |-> "None", error_message |-> "None",
     duration_seconds |-> NoTime, celery_task_id |-> NoId]

Terminal == {"completed", "failed"}

\* No GET request has been answered yet
NoResponse == [op |-> "None"]

\* AsyncResult of a message id nobody has reported on
NoMeta == [state |-> "PENDING", status |-> "None", error |-> "None"]

\* The id delay() gives the message of job j (one delay() call per job)
MsgId(j) == j

Exists(j) == j \in DOMAIN tasks

Delete(t, S) == [k \in (DOMAIN t) \ S |-> t[k]]

\* AnalysisTask.to_dict
to_dict(j) ==
    [id |-> j, status |-> tasks[j].status,
     analysis_result |-> tasks[j].analysis_result,
     error_message |-> tasks[j].error_message,
     started_at |-> tasks[j].started_at,
     completed_at |-> tasks[j].completed_at,
     duration_seconds |-> tasks[j].duration_seconds]

Init ==
    /\ now = 0
    /\ tasks = <<>>
    /\ store_up = TRUE
    /\ files = {}
    /\ history = {}
    /\ queue = [j \in Jobs |-> 0]
    /\ deliveries = [j \in Jobs |-> 0]
    /\ celery_meta = [j \in Jobs |-> NoMeta]
    /\ nextId = 1
    /\ sub_pc = "idle"
    /\ sub_job = NoId
    /\ sub_query = "None"
    /\ pc = [w \in Workers |-> "idle"]
    /\ cur = [w \in Workers |-> NoId]
    /\ task_record = [w \in Workers |-> Expired]
    /\ t0 = [w \in Workers |-> NoTime]
    /\ pending_completed_at = [w \in Workers |-> NoTime]
    /\ exc = [w \in Workers |-> "None"]
    /\ sweep_pc = "idle"
    /\ sweep_cutoff = NoTime
    /\ sweep_todo = {}
    /\ sweep_tasks = {}
    /\ sweep_hist = {}
    /\ sweep_kept = {}
    /\ response = NoResponse

\* ------------------------------------------------------------------ clock

\* The pool enforces the hard limit as soon as it is reached
Overdue(w) == pc[w] # "idle" /\ now - t0[w] >= HardLimit

\* Time may pass where a process waits: an idle process, a task inside
\* run_crew. Everything else (a request, a cleanup run, the task's statements
\* around its commits) takes far less than one unit of the clock. Only
\* differences of clock values are ever used, so the clock is started at the
\* first submission.
Waiting(w) == pc[w] \in {"idle", "running"} /\ ~Overdue(w)

Tick ==
    /\ now < MaxClock
    /\ nextId > 1
    /\ sub_pc = "idle"
    /\ sweep_pc = "idle"
    /\ \A w \in Workers : Waiting(w)
    /\ now' = now + 1
    /\ UNCHANGED <<tasks, store_up, files, history, queue, deliveries, celery_meta, nextId,
                   subVars, workerVars, sweepVars>>
    /\ UNCHANGED response

\* A day goes by in which nothing is submitted, delivered or cleaned up. The
\* clock values of one day are followed up to MaxClock; later in the day only
\* the date matters (retention is counted in days).
DayPasses ==
    /\ now < MaxDays * TicksPerDay
    /\ nextId > 1
    /\ sub_pc = "idle"
    /\ sweep_pc = "idle"
    /\ \A w \in Workers : pc[w] = "idle"
    /\ now' = now + TicksPerDay
    /\ UNCHANGED <<tasks, store_up, files, history, queue, deliveries, celery_meta, nextId,
                   subVars, workerVars, sweepVars>>
    /\ UNCHANGED response

\* What a second datetime.utcnow() of process w may return after a first one
\* returned now: the clock may have moved on between the two reads.
Later(w) ==
    {now} \cup
    {t \in {now + 1} :
        /\ now < MaxClock
        /\ sub_pc = "idle"
        /\ sweep_pc = "idle"
        /\ now - t0[w] < HardLimit
        /\ \A v \in Workers \ {w} : Waiting(v)}

\* ------------------------------------------------- analyze_document (main.py)

\* What a client sends as the query field: nothing, an empty string, a text.
\* A field that was not sent takes the form default (line 46) and an empty one
\* is replaced by the same text (lines 67-68): the handler goes on with all three.
Queries == {"missing", "", "What is the revenue?"}

\* analyze_document calling delay() before the row is committed
SubmitCreateEnqueuesFirst ==
    /\ sub_pc = "idle"
    /\ nextId \in DOMAIN queue
    /\ nextId' = nextId + 1
    /\ files' = files \cup {nextId}
    /\ queue' = [queue EXCEPT ![nextId] = @ + 1]
    /\ IF store_up
       THEN /\ tasks' = tasks @@ (nextId :> NewRow)
            /\ sub_pc' = "enqueued"
            /\ sub_job' = nextId
            /\ sub_query' \in Queries
       ELSE UNCHANGED <<tasks, sub_pc, sub_job, sub_query>>
    /\ UNCHANGED <<now, store_up, history, deliveries, celery_meta, workerVars,
                   sweepVars>>
    /\ UNCHANGED response

\* lines 54-80: the upload is written to disk, then the pending row is committed.
\* With the database down the commit raises: the file stays and the answer is 500.
SubmitCreate ==
    /\ sub_pc = "idle"
    /\ nextId \in DOMAIN queue
    /\ nextId' = nextId + 1
    /\ files' = files \cup {nextId}
    /\ IF store_up
       THEN /\ sub_query' \in Queries
            /\ tasks' = tasks @@ (nextId :> NewRow)
            /\ sub_pc' = "created"
            /\ sub_job' = nextId
       ELSE UNCHANGED <<tasks, sub_pc, sub_job, sub_query>>
    /\ UNCHANGED <<now, store_up, history, queue, deliveries, celery_meta, workerVars,
                   sweepVars>>
    /\ UNCHANGED response

\* analyze_document sending the message again after a send that went through
SubmitEnqueueTwice ==
    /\ sub_pc = "created"
    /\ queue' = [queue EXCEPT ![sub_job] = @ + 2]
    /\ sub_pc' = "enqueued"
    /\ UNCHANGED <<now, tasks, store_up, files, history, deliveries, celery_meta, nextId,
                   sub_job, sub_query, workerVars, sweepVars>>
    /\ UNCHANGED response

\* lines 83-87: delay() puts one message on the broker; when the broker is
\* unreachable the request ends in the except block (500), the row stays pending.
SubmitEnqueue ==
    /\ sub_pc = "created"
    /\ \E ok \in BOOLEAN :
         IF ok
         THEN /\ queue' = [queue EXCEPT ![sub_job] = @ + 1]
              /\ sub_pc' = "enqueued"
              /\ UNCHANGED <<sub_job, sub_query>>
         ELSE /\ sub_pc' = "idle"
              /\ sub_job' = NoId
              /\ sub_query' = "None"
              /\ UNCHANGED queue
    /\ UNCHANGED <<now, tasks, store_up, files, history, deliveries, celery_meta, nextId,
                   workerVars, sweepVars>>
    /\ UNCHANGED response

\* the request writing back every column of the object it refreshed at line 80
SubmitSetCeleryIdWritesRow ==
    /\ sub_pc = "enqueued"
    /\ IF store_up /\ Exists(sub_job)
       THEN /\ tasks' = [tasks EXCEPT ![sub_job] =
                           [NewRow EXCEPT !.celery_task_id = MsgId(sub_job)]]
            /\ sub_pc' = "tokened"
            /\ UNCHANGED <<sub_job, sub_query>>
       ELSE /\ sub_pc' = "idle"
            /\ sub_job' = NoId
            /\ sub_query' = "None"
            /\ UNCHANGED tasks
    /\ UNCHANGED <<now, store_up, files, history, queue, deliveries, celery_meta, nextId,
                   workerVars, sweepVars>>
    /\ UNCHANGED response

\* lines 90-91: the object was refreshed at line 80, so the flush updates the one
\* changed column, celery_task_id; a row deleted meanwhile is a StaleDataError.
SubmitSetCeleryId ==
    /\ sub_pc = "enqueued"
    /\ IF store_up /\ Exists(sub_job)
       THEN /\ tasks' = [tasks EXCEPT ![sub_job].celery_task_id = MsgId(sub_job)]
            /\ sub_pc' = "tokened"
            /\ UNCHANGED <<sub_job, sub_query>>
       ELSE /\ sub_pc' = "idle"
            /\ sub_job' = NoId
            /\ sub_query' = "None"
            /\ UNCHANGED tasks
    /\ UNCHANGED <<now, store_up, files, history, queue, deliveries, celery_meta, nextId,
                   workerVars, sweepVars>>
    /\ UNCHANGED response

\* lines 94-109: task_record.id is read from the object the commit of line 91
\* expired (a row deleted meanwhile is an ObjectDeletedError, a database that is
\* down an OperationalError: the answer is 500), the history row is inserted
\* and the request answers "queued"
SubmitHistory ==
    /\ sub_pc = "tokened"
    /\ history' = IF store_up /\ Exists(sub_job) THEN history \cup {sub_job}
                  ELSE history
    /\ sub_pc' = "idle"
    /\ sub_job' = NoId
    /\ sub_query' = "None"
    /\ UNCHANGED <<now, tasks, store_up, files, queue, deliveries, celery_meta, nextId,
                   workerVars, sweepVars>>
    /\ UNCHANGED response

\* ------------------------------------------------------------- the database

\* The database stops answering: every statement raises until it is back
StoreFails ==
    /\ store_up
    /\ store_up' = FALSE
    /\ UNCHANGED <<now, tasks, files, history, queue, deliveries, celery_meta,
                   nextId, subVars, workerVars, sweepVars>>
    /\ UNCHANGED response

StoreRecovers ==
    /\ ~store_up
    /\ store_up' = TRUE
    /\ UNCHANGED <<now, tasks, files, history, queue, deliveries, celery_meta,
                   nextId, subVars, workerVars, sweepVars>>
    /\ UNCHANGED response

\* --------------------------------------------------------------- the broker

\* At-least-once delivery: a message that was sent may be handed out again
Duplicate(j) ==
    /\ queue[j] + deliveries[j] >= 1
    /\ queue[j] + deliveries[j] < MaxCopies
    /\ queue' = [queue EXCEPT ![j] = @ + 1]
    /\ UNCHANGED <<now, tasks, store_up, files, history, deliveries, celery_meta, nextId,
                   subVars, workerVars, sweepVars>>
    /\ UNCHANGED response

\* ------------------------- analyze_financial_document_task (celery_app.py)

\* The pool hands the task to a free process; which one is immaterial, so the
\* lowest free one takes it.
FreeWorker(w) ==
    /\ pc[w] = "idle"
    /\ \A v \in Workers : v < w => pc[v] # "idle"

Release(w) ==
    /\ pc' = [pc EXCEPT ![w] = "idle"]
    /\ cur' = [cur EXCEPT ![w] = NoId]
    /\ task_record' = [task_record EXCEPT ![w] = Expired]
    /\ t0' = [t0 EXCEPT ![w] = NoTime]
    /\ pending_completed_at' = [pending_completed_at EXCEPT ![w] = NoTime]
    /\ exc' = [exc EXCEPT ![w] = "None"]

\* The task returned (state SUCCESS with its return value) or raised (FAILURE)
Returned(status, error) == [state |-> "SUCCESS", status |-> status, error |-> error]
Raised(error) == [state |-> "FAILURE", status |-> "None", error |-> error]

\* self.update_state(state="PROCESSING", ...), lines 75 and 81: the result
\* backend's entry of this message, nothing else
update_state(meta, j) ==
    [meta EXCEPT ![MsgId(j)] = [state |-> "PROCESSING", status |-> "None",
                                error |-> "None"]]

\* lines 67-69 on the loaded object: the unit of work flushes a column only when
\* its new value differs from the loaded one
ProcessingColumns(loaded, t, mid) ==
    {c \in {"status", "started_at", "celery_task_id"} :
        loaded[c] # [status |-> "processing", started_at |-> t,
                     celery_task_id |-> mid][c]}

\* the UPDATE of line 70
ApplyProcessing(row, loaded, t, mid) ==
    [c \in DOMAIN row |->
        IF c \in ProcessingColumns(loaded, t, mid)
        THEN [status |-> "processing", started_at |-> t, celery_task_id |-> mid][c]
        ELSE row[c]]

\* lines 85-94: result, status and completed_at are set on the expired object;
\* started_at is re-read from the row for the duration, which is written only
\* when started_at is set
ApplyCompleted(row, comp, t) ==
    [row EXCEPT !.analysis_result = "analysis",
                !.status = "completed",
                !.completed_at = comp,
                !.duration_seconds =
                    IF row.started_at # NoTime THEN t - row.started_at ELSE @]

\* lines 108-116
ApplyFailed(row, e, comp, t) ==
    [row EXCEPT !.status = "failed",
                !.error_message = e,
                !.completed_at = comp,
                !.duration_seconds =
                    IF row.started_at # NoTime THEN t - row.started_at ELSE @]

\* lines 104-110: the except block takes the exception, sets status, error and
\* completed_at on the object; the flush comes with line 116
Handle(w, e, t) ==
    /\ pc' = [pc EXCEPT ![w] = "failing"]
    /\ exc' = [exc EXCEPT ![w] = e]
    /\ pending_completed_at' = [pending_completed_at EXCEPT ![w] = t]
    /\ task_record' = [task_record EXCEPT ![w] = Expired]
    /\ UNCHANGED <<cur, t0>>

\* the task going on without the check of lines 63-65
TaskStartUnchecked(w, j) ==
    /\ FreeWorker(w)
    /\ queue[j] > 0
    /\ queue' = [queue EXCEPT ![j] = @ - 1]
    /\ deliveries' = [deliveries EXCEPT ![j] = @ + 1]
    /\ IF ~store_up
       THEN /\ celery_meta' = [celery_meta EXCEPT ![MsgId(j)] =
                                  Returned("failed", "OperationalError")]
            /\ UNCHANGED workerVars
       ELSE /\ pc' = [pc EXCEPT ![w] = "loaded"]
            /\ cur' = [cur EXCEPT ![w] = j]
            /\ task_record' = [task_record EXCEPT ![w] =
                                  IF Exists(j) THEN tasks[j] ELSE Expired]
            /\ t0' = [t0 EXCEPT ![w] = now]
            /\ celery_meta' = [celery_meta EXCEPT ![MsgId(j)] =
                                  [state |-> "STARTED", status |-> "None",
                                   error |-> "None"]]
            /\ UNCHANGED <<pending_completed_at, exc>>
    /\ UNCHANGED <<now, tasks, store_up, files, history, nextId, subVars,
                   sweepVars>>
    /\ UNCHANGED response

\* The pool acknowledges the message and starts the task (task_track_started);
\* line 62 loads the row, lines 63-65 return when there is none. With the
\* database down the query raises while task_record is None: lines 104-122
\* return the failure and write nothing.
TaskStart(w, j) ==
    /\ FreeWorker(w)
    /\ queue[j] > 0
    /\ queue' = [queue EXCEPT ![j] = @ - 1]
    /\ deliveries' = [deliveries EXCEPT ![j] = @ + 1]
    /\ IF ~store_up
       THEN /\ celery_meta' = [celery_meta EXCEPT ![MsgId(j)] =
                                  Returned("failed", "OperationalError")]
            /\ UNCHANGED workerVars
       ELSE IF Exists(j)
       THEN /\ pc' = [pc EXCEPT ![w] = "loaded"]
            /\ cur' = [cur EXCEPT ![w] = j]
            /\ task_record' = [task_record EXCEPT ![w] = tasks[j]]
            /\ t0' = [t0 EXCEPT ![w] = now]
            /\ celery_meta' = [celery_meta EXCEPT ![MsgId(j)] =
                                  [state |-> "STARTED", status |-> "None",
                                   error |-> "None"]]
            /\ UNCHANGED <<pending_completed_at, exc>>
       ELSE /\ celery_meta' = [celery_meta EXCEPT ![MsgId(j)] =
                                  Returned("None", "Task record not found")]
            /\ UNCHANGED workerVars
    /\ UNCHANGED <<now, tasks, store_up, files, history, nextId, subVars,
                   sweepVars>>
    /\ UNCHANGED response

\* lines 67-81: status, started_at and celery_task_id are set and committed, then
\* progress is reported and run_crew is entered. A commit that fails (the row is
\* gone: StaleDataError; the store is down: OperationalError) rolls back and
\* lands in the except block.
CommitProcessing(w) ==
    /\ pc[w] = "loaded"
    /\ LET j == cur[w]
           cols == ProcessingColumns(task_record[w], now, MsgId(j))
       IN IF store_up /\ (cols = {} \/ Exists(j))
          THEN /\ tasks' = IF cols = {} \/ ~Exists(j) THEN tasks
                           ELSE [tasks EXCEPT ![j] =
                                   ApplyProcessing(@, task_record[w], now, MsgId(j))]
               /\ pc' = [pc EXCEPT ![w] = "running"]
               /\ task_record' = [task_record EXCEPT ![w] = Expired]
               /\ celery_meta' = update_state(celery_meta, j)
               /\ UNCHANGED <<cur, t0, pending_completed_at, exc>>
          ELSE /\ Handle(w, IF store_up THEN "StaleDataError"
                            ELSE "OperationalError", now)
               /\ UNCHANGED <<tasks, celery_meta>>
    /\ UNCHANGED <<now, store_up, files, history, queue, deliveries, nextId, subVars,
                   sweepVars>>
    /\ UNCHANGED response

\* the task flushing analysis_result to the row as soon as run_crew returns
EngineReturnFlushes(w) ==
    /\ pc[w] = "running"
    /\ pc' = [pc EXCEPT ![w] = "storing"]
    /\ pending_completed_at' = [pending_completed_at EXCEPT ![w] = now]
    /\ tasks' = IF Exists(cur[w])
                THEN [tasks EXCEPT ![cur[w]].analysis_result = "analysis"]
                ELSE tasks
    /\ UNCHANGED <<cur, task_record, t0, exc>>
    /\ UNCHANGED <<now, store_up, files, history, queue, deliveries, celery_meta,
                   nextId, subVars, sweepVars>>
    /\ UNCHANGED response

\* line 82 returns; lines 85-87 set result, status and completed_at
EngineReturn(w) ==
    /\ pc[w] = "running"
    /\ pc' = [pc EXCEPT ![w] = "storing"]
    /\ pending_completed_at' = [pending_completed_at EXCEPT ![w] = now]
    /\ UNCHANGED <<cur, task_record, t0, exc>>
    /\ UNCHANGED <<now, tasks, store_up, files, history, queue, deliveries, celery_meta,
                   nextId, subVars,
                   sweepVars>>
    /\ UNCHANGED response

\* line 82 raises
EngineRaise(w) ==
    /\ pc[w] = "running"
    /\ Handle(w, "EngineError", now)
    /\ UNCHANGED <<now, tasks, store_up, files, history, queue, deliveries, celery_meta,
                   nextId, subVars,
                   sweepVars>>
    /\ UNCHANGED response

\* task_soft_time_limit: SoftTimeLimitExceeded is raised inside run_crew, which
\* may let it through to the except block (or swallow it and go on)
SoftTimeout(w) ==
    /\ pc[w] = "running"
    /\ now - t0[w] >= SoftLimit
    /\ Handle(w, "SoftTimeLimitExceeded", now)
    /\ UNCHANGED <<now, tasks, store_up, files, history, queue, deliveries, celery_meta,
                   nextId, subVars,
                   sweepVars>>
    /\ UNCHANGED response

\* task_time_limit: the pool kills the process; no except or finally block runs
HardKill(w) ==
    /\ Overdue(w)
    /\ celery_meta' = [celery_meta EXCEPT ![MsgId(cur[w])] =
                          Raised("TimeLimitExceeded")]
    /\ Release(w)
    /\ UNCHANGED <<now, tasks, store_up, files, history, queue, deliveries, nextId, subVars,
                   sweepVars>>
    /\ UNCHANGED response

\* The process dies. The message was acknowledged when the task started
\* (task_acks_late is not set), so the broker does not hand it out again.
Crash(w) ==
    /\ pc[w] # "idle"
    /\ celery_meta' = [celery_meta EXCEPT ![MsgId(cur[w])] =
                          Raised("WorkerLostError")]
    /\ Release(w)
    /\ UNCHANGED <<now, tasks, store_up, files, history, queue, deliveries, nextId, subVars,
                   sweepVars>>
    /\ UNCHANGED response

\* the task writing its result with an insert when the row is not there
StoreResultUpserts(w) ==
    /\ pc[w] = "storing"
    /\ LET j == cur[w] IN
       IF ~store_up
       THEN /\ Handle(w, "OperationalError", now)
            /\ UNCHANGED <<now, tasks, celery_meta>>
       ELSE \E t \in Later(w) :
              /\ now' = t
              /\ tasks' = IF Exists(j)
                          THEN [tasks EXCEPT ![j] =
                                  ApplyCompleted(@, pending_completed_at[w], t)]
                          ELSE tasks @@
                               (j :> ApplyCompleted(NewRow, pending_completed_at[w], t))
              /\ celery_meta' = [celery_meta EXCEPT ![MsgId(j)] =
                                    Returned("completed", "None")]
              /\ Release(w)
    /\ UNCHANGED <<store_up, files, history, queue, deliveries, nextId, subVars,
                   sweepVars>>
    /\ UNCHANGED response

\* lines 90-102: started_at is read (the expired object is reloaded: a deleted
\* row is an ObjectDeletedError, a database that is down an OperationalError,
\* and both land in the except block), the duration computed, the row
\* committed and the task returns.
StoreResult(w) ==
    /\ pc[w] = "storing"
    /\ LET j == cur[w] IN
       IF ~store_up \/ ~Exists(j)
       THEN /\ Handle(w, IF store_up THEN "ObjectDeletedError"
                         ELSE "OperationalError", now)
            /\ UNCHANGED <<now, tasks, celery_meta>>
       ELSE \E t \in Later(w) :
              /\ now' = t
              /\ tasks' = [tasks EXCEPT ![j] =
                             ApplyCompleted(@, pending_completed_at[w], t)]
              /\ celery_meta' = [celery_meta EXCEPT ![MsgId(j)] =
                                    Returned("completed", "None")]
              /\ Release(w)
    /\ UNCHANGED <<store_up, files, history, queue, deliveries, nextId, subVars,
                   sweepVars>>
    /\ UNCHANGED response

\* lines 112-122: as above for the failure; an exception here leaves the task
StoreFailure(w) ==
    /\ pc[w] = "failing"
    /\ LET j == cur[w] IN
       IF ~store_up \/ ~Exists(j)
       THEN /\ celery_meta' = [celery_meta EXCEPT ![MsgId(j)] =
                                  Raised(IF store_up THEN "ObjectDeletedError"
                                         ELSE "OperationalError")]
            /\ UNCHANGED <<now, tasks>>
       ELSE \E t \in Later(w) :
              /\ now' = t
              /\ tasks' = [tasks EXCEPT ![j] =
                             ApplyFailed(@, exc[w], pending_completed_at[w], t)]
              /\ celery_meta' = [celery_meta EXCEPT ![MsgId(j)] =
                                    Returned("failed", exc[w])]
    /\ Release(w)
    /\ UNCHANGED <<store_up, files, history, queue, deliveries, nextId, subVars,
                   sweepVars>>
    /\ UNCHANGED response

\* ------------------------------------------------------ cleanup (manage_db.py)

\* cleanup_old_tasks comparing completed_at with the present time
OldTasksIgnoringDays(days) ==
    {j \in DOMAIN tasks :
        /\ tasks[j].status = "completed"
        /\ tasks[j].completed_at # NoTime
        /\ tasks[j].completed_at < now}

\* lines 34-40: completed tasks whose completed_at is before the cutoff
OldTasks(days) ==
    {j \in DOMAIN tasks :
        /\ tasks[j].status = "completed"
        /\ tasks[j].completed_at # NoTime
        /\ tasks[j].completed_at < now - days * TicksPerDay}

\* lines 84-86
FailedTasks == {j \in DOMAIN tasks : tasks[j].status = "failed"}

\* cleanup_old_tasks, lines 32-47 (it returns when the query finds nothing, and
\* ends with the exception when the database is down)
CleanupOldSelect(days) ==
    /\ sweep_pc = "idle"
    /\ store_up
    /\ OldTasks(days) # {}
    /\ sweep_pc' = "old"
    /\ sweep_cutoff' = now - days * TicksPerDay
    /\ sweep_todo' = OldTasks(days)
    /\ UNCHANGED <<sweep_tasks, sweep_hist, sweep_kept>>
    /\ UNCHANGED <<now, tasks, store_up, files, history, queue, deliveries, celery_meta,
                   nextId, subVars, workerVars>>
    /\ UNCHANGED response

\* cleanup_failed_tasks, lines 82-93
CleanupFailedSelect ==
    /\ sweep_pc = "idle"
    /\ store_up
    /\ FailedTasks # {}
    /\ sweep_pc' = "failed"
    /\ sweep_todo' = FailedTasks
    /\ UNCHANGED <<sweep_cutoff, sweep_tasks, sweep_hist, sweep_kept>>
    /\ UNCHANGED <<now, tasks, store_up, files, history, queue, deliveries, celery_meta,
                   nextId, subVars, workerVars>>
    /\ UNCHANGED response

\* One pass of the for loop (lines 49-72, lines 95-102): the file is removed at
\* once (a failing os.remove is printed or passed over), the rows are marked
\* deleted in the session. cleanup_old_tasks then queries the history and the
\* metrics, which raises when the database is down; cleanup_failed_tasks does
\* not look at them.
CleanupStep(j) ==
    /\ sweep_pc # "idle"
    /\ j \in sweep_todo
    /\ \E raised \in BOOLEAN :
         LET keep == j \in files /\ raised IN
         /\ files' = IF keep THEN files ELSE files \ {j}
         /\ IF sweep_pc = "old" /\ ~store_up
            THEN /\ sweep_pc' = "idle"
                 /\ sweep_cutoff' = NoTime
                 /\ sweep_todo' = {}
                 /\ sweep_tasks' = {}
                 /\ sweep_hist' = {}
                 /\ sweep_kept' = {}
            ELSE /\ sweep_todo' = sweep_todo \ {j}
                 /\ sweep_tasks' = sweep_tasks \cup {j}
                 /\ sweep_hist' = IF sweep_pc = "old"
                                  THEN sweep_hist \cup ({j} \cap history)
                                  ELSE sweep_hist
                 /\ sweep_kept' = IF keep THEN sweep_kept \cup {j} ELSE sweep_kept
                 /\ UNCHANGED <<sweep_pc, sweep_cutoff>>
    /\ UNCHANGED <<now, tasks, store_up, history, queue, deliveries, celery_meta,
                   nextId, subVars, workerVars>>
    /\ UNCHANGED response

\* db.commit(), line 74 and line 104: the marked rows are deleted by primary key
CleanupCommit ==
    /\ sweep_pc # "idle"
    /\ sweep_todo = {}
    /\ store_up
    /\ tasks' = Delete(tasks, sweep_tasks)
    /\ history' = history \ sweep_hist
    /\ sweep_pc' = "idle"
    /\ sweep_cutoff' = NoTime
    /\ sweep_tasks' = {}
    /\ sweep_hist' = {}
    /\ sweep_kept' = {}
    /\ UNCHANGED sweep_todo
    /\ UNCHANGED <<now, store_up, files, queue, deliveries, celery_meta,
                   nextId, subVars, workerVars>>
    /\ UNCHANGED response

\* The script is interrupted or a statement of it raises: what its session held
\* is dropped
CleanupAbort ==
    /\ sweep_pc # "idle"
    /\ sweep_pc' = "idle"
    /\ sweep_cutoff' = NoTime
    /\ sweep_todo' = {}
    /\ sweep_tasks' = {}
    /\ sweep_hist' = {}
    /\ sweep_kept' = {}
    /\ UNCHANGED <<now, tasks, store_up, files, history, queue, deliveries, celery_meta,
                   nextId, subVars, workerVars>>
    /\ UNCHANGED response

\* ------------------------------------------------------------ specification

Next ==
    \/ Tick
    \/ DayPasses
    \/ StoreFails
    \/ StoreRecovers
    \/ SubmitCreate
    \/ SubmitEnqueue
    \/ SubmitSetCeleryId
    \/ SubmitHistory
    \/ \E j \in Jobs : Duplicate(j)
    \/ \E w \in Workers, j \in Jobs : TaskStart(w, j)
    \/ \E w \in Workers : CommitProcessing(w)
    \/ \E w \in Workers : EngineReturn(w)
    \/ \E w \in Workers : EngineRaise(w)
    \/ \E w \in Workers : SoftTimeout(w)
    \/ \E w \in Workers : HardKill(w)
    \/ \E w \in Workers : Crash(w)
    \/ \E w \in Workers : StoreResult(w)
    \/ \E w \in Workers : StoreFailure(w)
    \/ \E days \in 0..MaxDays : CleanupOldSelect(days)
    \/ CleanupFailedSelect
    \/ \E j \in Jobs : CleanupStep(j)
    \/ CleanupCommit
    \/ CleanupAbort

Spec == Init /\ [][Next]_vars

\* What the processes do on their own once they can: a request goes on to its
\* next statement, the pool starts a waiting message, a task goes on to its next
\* commit, the pool enforces the hard limit, a cleanup run goes on. Nothing
\* makes a client submit, the engine return, the database fail or the broker
\* hand a message out again.
Progress ==
    \/ SubmitEnqueue
    \/ SubmitSetCeleryId
    \/ SubmitHistory
    \/ \E w \in Workers, j \in Jobs : TaskStart(w, j)
    \/ \E w \in Workers : CommitProcessing(w)
    \/ \E w \in Workers : StoreResult(w)
    \/ \E w \in Workers : StoreFailure(w)
    \/ \E w \in Workers : HardKill(w)
    \/ \E j \in Jobs : CleanupStep(j)
    \/ CleanupCommit

FairSpec == Spec /\ WF_vars(Progress)

\* ------------------------------------------ cleanup of a table of several jobs

SweepJobs == 1..MaxSweepJobs

\* The rows the task leaves of job j: as inserted, after lines 67-70, after
\* lines 85-94 and after lines 107-116
SweepRows(j) ==
    LET started == ApplyProcessing(NewRow, NewRow, 0, MsgId(j)) IN
    {NewRow, started}
    \cup {ApplyCompleted(started, c, c) : c \in 0..MaxSweepTime}
    \cup {ApplyFailed(started, "EngineError", c, c) : c \in 0..MaxSweepTime}

\* manage_db.py is started on a table the API and the workers left behind, with
\* nothing else running; a document is only ever missing for a job a cleanup
\* run has been on, and a history row for a request that ended early.
SweepInit ==
    /\ now \in {MaxSweepTime + d * TicksPerDay : d \in 0..MaxDays}
    /\ tasks \in {t \in [SweepJobs -> UNION {SweepRows(j) : j \in SweepJobs}] :
                    \A j \in SweepJobs : t[j] \in SweepRows(j)}
    /\ store_up = TRUE
    /\ files \in {F \in SUBSET SweepJobs :
                    \A j \in SweepJobs : tasks[j].status \notin Terminal => j \in F}
    /\ history \in SUBSET SweepJobs
    /\ queue = [j \in SweepJobs |-> 0]
    /\ deliveries = [j \in SweepJobs |-> 0]
    /\ celery_meta = [j \in SweepJobs |-> NoMeta]
    /\ nextId = MaxSweepJobs + 1
    /\ sub_pc = "idle"
    /\ sub_job = NoId
    /\ sub_query = "None"
    /\ pc = [w \in Workers |-> "idle"]
    /\ cur = [w \in Workers |-> NoId]
    /\ task_record = [w \in Workers |-> Expired]
    /\ t0 = [w \in Workers |-> NoTime]
    /\ pending_completed_at = [w \in Workers |-> NoTime]
    /\ exc = [w \in Workers |-> "None"]
    /\ sweep_pc = "idle"
    /\ sweep_cutoff = NoTime
    /\ sweep_todo = {}
    /\ sweep_tasks = {}
    /\ sweep_hist = {}
    /\ sweep_kept = {}
    /\ response = NoResponse

SweepNext ==
    \/ StoreFails
    \/ StoreRecovers
    \/ \E days \in 0..MaxDays : CleanupOldSelect(days)
    \/ CleanupFailedSelect
    \/ \E j \in SweepJobs : CleanupStep(j)
    \/ CleanupCommit
    \/ CleanupAbort

SweepSpec == SweepInit /\ [][SweepNext]_vars

\* ------------------------------------------------ the read endpoints (main.py)

\* get_task_status, lines 115-134
get_task_status(j) ==
    IF ~Exists(j)
    THEN [code |-> 404]
    ELSE [code |-> 200,
          body |-> to_dict(j),
          celery_status |->
              IF tasks[j].celery_task_id # NoId
              THEN celery_meta[tasks[j].celery_task_id].state
              ELSE "None"]

get_task_result_if_present(j) ==
    IF ~Exists(j)
    THEN [code |-> 404]
    ELSE IF tasks[j].analysis_result # "None"
    THEN [code |-> 200, status |-> tasks[j].status,
          result |-> tasks[j].analysis_result,
          completed_at |-> tasks[j].completed_at,
          duration_seconds |-> tasks[j].duration_seconds]
    ELSE IF tasks[j].status = "failed"
    THEN [code |-> 200, status |-> "failed", error |-> tasks[j].error_message]
    ELSE [code |-> 200, status |-> tasks[j].status,
          message |-> "Task is still processing. Please try again later."]

\* get_task_result, lines 137-167
get_task_result(j) ==
    IF ~Exists(j)
    THEN [code |-> 404]
    ELSE IF tasks[j].status \in {"pending", "processing"}
    THEN [code |-> 200, status |-> tasks[j].status,
          message |-> "Task is still processing. Please try again later."]
    ELSE IF tasks[j].status = "failed"
    THEN [code |-> 200, status |-> "failed", error |-> tasks[j].error_message]
    ELSE [code |-> 200, status |-> "completed",
          result |-> tasks[j].analysis_result,
          completed_at |-> tasks[j].completed_at,
          duration_seconds |-> tasks[j].duration_seconds]

\* list_tasks(limit=50), line 173
DefaultLimit == 50

\* The rows of S, newest first, n of them at most: order_by(created_at.desc())
\* and limit(n), line 182. Ids are given out in the order of creation.
RECURSIVE Newest(_, _)
Newest(S, n) ==
    IF S = {} \/ n = 0
    THEN <<>>
    ELSE LET j == CHOOSE x \in S : \A y \in S : y <= x
         IN <<to_dict(j)>> \o Newest(S \ {j}, n - 1)

\* list_tasks, lines 170-188: "if status:" filters for a status that was given
\* and is not the empty string
list_tasks(status, limit) ==
    LET S == {j \in DOMAIN tasks : status \in {"None", ""} \/ tasks[j].status = status}
        rows == Newest(S, limit)
    IN [code |-> 200, count |-> Len(rows), tasks |-> rows]

\* The query of a handler raises when the database is away, nothing catches it
\* and the framework answers 500
Answer(out) == IF store_up THEN out ELSE [code |-> 500]

stateVars == <<now, tasks, store_up, files, history, queue, deliveries, celery_meta,
               nextId, subVars, workerVars, sweepVars>>

GetTaskStatusRecordsView(j) ==
    /\ response' = [op |-> "get_task_status", task_id |-> j,
                    out |-> Answer(get_task_status(j))]
    /\ history' = IF store_up /\ Exists(j) THEN history \cup {j} ELSE history
    /\ UNCHANGED <<now, tasks, store_up, files, queue, deliveries, celery_meta,
                   nextId, subVars, workerVars, sweepVars>>

\* GET /tasks/{task_id}, lines 114-134
GetTaskStatus(j) ==
    /\ response' = [op |-> "get_task_status", task_id |-> j,
                    out |-> Answer(get_task_status(j))]
    /\ UNCHANGED stateVars

\* GET /tasks/{task_id}/result, lines 137-167
GetTaskResult(j) ==
    /\ response' = [op |-> "get_task_result", task_id |-> j,
                    out |-> Answer(get_task_result(j))]
    /\ UNCHANGED stateVars

\* GET /tasks, lines 170-188
ListTasks(status, limit) ==
    /\ response' = [op |-> "list_tasks", status |-> status, limit |-> limit,
                    out |-> Answer(list_tasks(status, limit))]
    /\ UNCHANGED stateVars

\* The ids a client asks for: the jobs of the table and one that was never given out
ReadIds == SweepJobs \cup {MaxSweepJobs + 1}

StatusFilters == {"None", "", "pending", "processing", "completed", "failed"}

Limits == {0, 1, DefaultLimit}

\* The rows the program leaves of job j: those of one execution, and those of
\* a second execution that ended the other way (lines 85-94 after 107-116 and
\* the reverse; neither clears the other's column)
ReadRows(j) ==
    SweepRows(j)
    \cup {ApplyFailed(r, "EngineError", MaxSweepTime, MaxSweepTime) :
            r \in {x \in SweepRows(j) : x.status = "completed"}}
    \cup {ApplyCompleted(r, MaxSweepTime, MaxSweepTime) :
            r \in {x \in SweepRows(j) : x.status = "failed"}}

\* The result backend's entry of the message of a job whose row is row
MetaOf(row) ==
    CASE row.status = "pending" -> NoMeta
      [] row.status = "processing" ->
            [state |-> "PROCESSING", status |-> "None", error |-> "None"]
      [] row.status = "completed" -> Returned("completed", "None")
      [] OTHER -> Returned("failed", row.error_message)

\* The API alone on a table the program left behind: any of the jobs may be
\* there, in any of its rows
ReadInit ==
    /\ now = MaxSweepTime
    /\ \E D \in SUBSET SweepJobs :
          tasks \in {t \in [D -> UNION {ReadRows(j) : j \in SweepJobs}] :
                        \A j \in D : t[j] \in ReadRows(j)}
    /\ store_up = TRUE
    /\ files = DOMAIN tasks
    /\ history \in SUBSET SweepJobs
    /\ queue = [j \in SweepJobs |-> 0]
    /\ deliveries = [j \in SweepJobs |-> 0]
    /\ celery_meta = [j \in SweepJobs |->
                        IF j \in DOMAIN tasks THEN MetaOf(tasks[j]) ELSE NoMeta]
    /\ nextId = MaxSweepJobs + 1
    /\ sub_pc = "idle"
    /\ sub_job = NoId
    /\ sub_query = "None"
    /\ pc = [w \in Workers |-> "idle"]
    /\ cur = [w \in Workers |-> NoId]
    /\ task_record = [w \in Workers |-> Expired]
    /\ t0 = [w \in Workers |-> NoTime]
    /\ pending_completed_at = [w \in Workers |-> NoTime]
    /\ exc = [w \in Workers |-> "None"]
    /\ sweep_pc = "idle"
    /\ sweep_cutoff = NoTime
    /\ sweep_todo = {}
    /\ sweep_tasks = {}
    /\ sweep_hist = {}
    /\ sweep_kept = {}
    /\ response = NoResponse

ReadNext ==
    \/ StoreFails
    \/ StoreRecovers
    \/ \E j \in ReadIds : GetTaskStatus(j)
    \/ \E j \in ReadIds : GetTaskResult(j)
    \/ \E status \in StatusFilters, limit \in Limits : ListTasks(status, limit)

ReadSpec == ReadInit /\ [][ReadNext]_vars

\* ------------------------------------------- several jobs in flight at once

MaxTokenJobs == 2   \* submissions made in one behaviour of TokenSpec

TokenJobs == 1..MaxTokenJobs

\* The API and the pool with several jobs, the database and the processes
\* staying up and no cleanup run: requests one after the other, each job's
\* message worked on while the request that sent it or a later one goes on
TokenInit ==
    /\ now = 0
    /\ tasks = <<>>
    /\ store_up = TRUE
    /\ files = {}
    /\ history = {}
    /\ queue = [j \in TokenJobs |-> 0]
    /\ deliveries = [j \in TokenJobs |-> 0]
    /\ celery_meta = [j \in TokenJobs |-> NoMeta]
    /\ nextId = 1
    /\ sub_pc = "idle"
    /\ sub_job = NoId
    /\ sub_query = "None"
    /\ pc = [w \in Workers |-> "idle"]
    /\ cur = [w \in Workers |-> NoId]
    /\ task_record = [w \in Workers |-> Expired]
    /\ t0 = [w \in Workers |-> NoTime]
    /\ pending_completed_at = [w \in Workers |-> NoTime]
    /\ exc = [w \in Workers |-> "None"]
    /\ sweep_pc = "idle"
    /\ sweep_cutoff = NoTime
    /\ sweep_todo = {}
    /\ sweep_tasks = {}
    /\ sweep_hist = {}
    /\ sweep_kept = {}
    /\ response = NoResponse

TokenNext ==
    \/ SubmitCreate
    \/ SubmitEnqueue
    \/ SubmitSetCeleryId
    \/ SubmitHistory
    \/ \E j \in TokenJobs : Duplicate(j)
    \/ \E w \in Workers, j \in TokenJobs : TaskStart(w, j)
    \/ \E w \in Workers : CommitProcessing(w)
    \/ \E w \in Workers : EngineReturn(w)
    \/ \E w \in Workers : EngineRaise(w)
    \/ \E w \in Workers : StoreResult(w)
    \/ \E w \in Workers : StoreFailure(w)

TokenSpec == TokenInit /\ [][TokenNext]_vars

\* ------------------------------------------------------------------ claims

\* The pool processes that are executing the task for job j
Holders(j) == {w \in Workers : cur[w] = j}

\* The jobs whose row is there before and after a step
Kept == (DOMAIN tasks) \cap (DOMAIN tasks')

Rank(status) ==
    CASE status = "pending" -> 0
      [] status = "processing" -> 1
      [] OTHER -> 2

\* C1: in every reachable state a job has analysis_result set only when its
\* status is completed and error_message set only when its status is failed,
\* and a job in a terminal status has exactly one of the two set.
C1_ResultXorError ==
    \A j \in DOMAIN tasks :
        /\ tasks[j].analysis_result # "None" => tasks[j].status = "completed"
        /\ tasks[j].error_message # "None" => tasks[j].status = "failed"
        /\ tasks[j].status \in Terminal =>
             (tasks[j].analysis_result # "None") # (tasks[j].error_message # "None")

\* C2: no step moves a job's status backwards along
\* pending -> processing -> {completed, failed}.
C2_StatusForward ==
    [][\A j \in Kept : Rank(tasks'[j].status) >= Rank(tasks[j].status)]_vars

\* C3: an execution of the task that loaded a job in completed or failed leaves
\* without writing to the job's row and without entering run_crew.
C3_DuplicateNoOp ==
    [][\A w \in Workers :
          (/\ pc[w] = "loaded"
           /\ task_record[w].status \in Terminal
           /\ pc'[w] # "loaded")
          => /\ pc'[w] # "running"
             /\ \A j \in Kept : tasks'[j] = tasks[j]]_vars

\* C4: of the executions of the task on one job at most one gets past the
\* dispatch into run_crew; no two are inside run_crew or past it with a result
\* to store at the same time.
C4_SingleDispatch ==
    \A j \in Jobs :
        Cardinality({w \in Holders(j) : pc[w] \in {"running", "storing"}}) <= 1

\* C5: once a job is in a terminal status, no later terminal write changes its
\* status, result, error or completed_at.
C5_OneTerminalWrite ==
    [][\A j \in Kept :
          (tasks[j].status \in Terminal /\ tasks'[j].status \in Terminal)
          => /\ tasks'[j].status = tasks[j].status
             /\ tasks'[j].analysis_result = tasks[j].analysis_result
             /\ tasks'[j].error_message = tasks[j].error_message
             /\ tasks'[j].completed_at = tasks[j].completed_at]_vars

\* C6: when the process executing a job died after setting it to processing,
\* the job's message is not lost: it is still with the broker for another
\* process to take.
C6_MessageNotLost ==
    \A j \in DOMAIN tasks :
        (/\ tasks[j].status = "processing"
         /\ celery_meta[MsgId(j)] = Raised("WorkerLostError")
         /\ Holders(j) = {})
        => queue[j] > 0

\* C7: a job whose execution was ended by the hard time limit is failed with
\* completed_at set and a duration of at least the hard limit, and no job is
\* failed for a time limit before the hard limit has passed.
C7_TimeoutRecorded ==
    \A j \in DOMAIN tasks :
        /\ (celery_meta[MsgId(j)] = Raised("TimeLimitExceeded") /\ Holders(j) = {})
           => /\ tasks[j].status = "failed"
              /\ tasks[j].completed_at # NoTime
              /\ tasks[j].duration_seconds >= HardLimit
        /\ (tasks[j].status = "failed"
            /\ tasks[j].error_message = "SoftTimeLimitExceeded")
           => tasks[j].duration_seconds >= HardLimit

\* C8: a job's statuses are observed in the order pending, processing,
\* completed: processing is entered from pending only, completed from
\* processing only, a completed job stays completed, and get_task_status
\* reports it with a result and without an error.
C8_EndToEndSuccess ==
    /\ [](\A j \in DOMAIN tasks :
            tasks[j].status = "completed"
            => /\ get_task_status(j).body.status = "completed"
               /\ get_task_status(j).body.analysis_result # "None"
               /\ get_task_status(j).body.error_message = "None")
    /\ [][\A j \in Kept :
            \/ tasks'[j].status = tasks[j].status
            \/ <<tasks[j].status, tasks'[j].status>> \in
                 {<<"pending", "processing">>, <<"processing", "completed">>,
                  <<"pending", "failed">>, <<"processing", "failed">>}]_vars

\* C9: when the task reports that run_crew raised, the job is failed, its
\* error_message is that error, its analysis_result is null, and
\* get_task_status and get_task_result both report failed with that error.
C9_EndToEndFailure ==
    \A j \in DOMAIN tasks :
        celery_meta[MsgId(j)] = Returned("failed", "EngineError")
        => /\ get_task_status(j).body.status = "failed"
           /\ get_task_status(j).body.error_message = "EngineError"
           /\ get_task_status(j).body.analysis_result = "None"
           /\ get_task_result(j).status = "failed"
           /\ get_task_result(j).error = "EngineError"

\* C10: no exception leaves the task: the result backend never holds an
\* exception raised by the task's own code for any job.
C10_NoExceptionEscapes ==
    \A j \in Jobs :
        celery_meta[MsgId(j)].state = "FAILURE"
        => celery_meta[MsgId(j)].error \in {"TimeLimitExceeded", "WorkerLostError"}

\* ------------------------------------------------- one delivery per message

\* The broker handed job j's message out at most once
Once(j) == queue[j] + deliveries[j] <= 1

\* With one delivery per message a job is in a terminal status with exactly
\* one of result and error, and neither is set outside its status.
OnceResultXorError ==
    \A j \in DOMAIN tasks :
        Once(j) =>
            /\ tasks[j].analysis_result # "None" => tasks[j].status = "completed"
            /\ tasks[j].error_message # "None" => tasks[j].status = "failed"
            /\ tasks[j].status \in Terminal =>
                 (tasks[j].analysis_result # "None") # (tasks[j].error_message # "None")

\* With one delivery per message the statuses of a job follow
\* pending, processing, completed or end in failed.
OnceStatusOrder ==
    [][\A j \in Kept : Once(j)' =>
          \/ tasks'[j].status = tasks[j].status
          \/ <<tasks[j].status, tasks'[j].status>> \in
               {<<"pending", "processing">>, <<"processing", "completed">>,
                <<"pending", "failed">>, <<"processing", "failed">>}]_vars

\* With one delivery per message a task that reported the engine's error
\* left the job failed with that error and without a result.
OnceEngineFailure ==
    \A j \in DOMAIN tasks :
        (Once(j) /\ celery_meta[MsgId(j)] = Returned("failed", "EngineError"))
        => /\ get_task_status(j).body.status = "failed"
           /\ get_task_status(j).body.error_message = "EngineError"
           /\ get_task_status(j).body.analysis_result = "None"
           /\ get_task_result(j).status = "failed"
           /\ get_task_result(j).error = "EngineError"

\* ------------------------------------------------- submission and dispatch

\* C11: the message of a job is sent only when its pending row is committed,
\* and a job that left pending, or that a pool process works on, was
\* delivered from such a message.
C11_RecordBeforeDispatch ==
    /\ [](/\ \A j \in DOMAIN tasks :
               tasks[j].status # "pending" => deliveries[j] > 0
          /\ \A w \in Workers : pc[w] # "idle" => deliveries[cur[w]] > 0)
    /\ [][\A j \in Jobs :
            (queue[j] + deliveries[j] = 0 /\ queue'[j] > 0)
            => /\ j \in DOMAIN tasks
               /\ tasks[j].status = "pending"]_vars

\* A job is being processed
C11_Witness ==
    \E j \in DOMAIN tasks :
        /\ tasks[j].status = "processing"
        /\ \E w \in Workers : cur[w] = j /\ pc[w] = "running"

\* C12: a job row appears only in the step of a submission that commits it,
\* one row per submission, pending with started_at, completed_at,
\* analysis_result and error_message null; the submission sends nothing before
\* that, then one message carrying the row's id, and no other.
C12_OneRecordOneMessage ==
    /\ [](sub_pc = "created" => queue[sub_job] + deliveries[sub_job] = 0)
    /\ [][/\ (DOMAIN tasks' # DOMAIN tasks /\ DOMAIN tasks \subseteq DOMAIN tasks')
             => /\ sub_pc = "idle" /\ sub_pc' = "created"
                /\ sub_job' \notin DOMAIN tasks
                /\ DOMAIN tasks' = DOMAIN tasks \cup {sub_job'}
                /\ tasks'[sub_job'].status = "pending"
                /\ tasks'[sub_job'].started_at = NoTime
                /\ tasks'[sub_job'].completed_at = NoTime
                /\ tasks'[sub_job'].analysis_result = "None"
                /\ tasks'[sub_job'].error_message = "None"
          /\ sub_pc' # sub_pc
             => IF sub_pc = "created" /\ sub_pc' = "enqueued"
                THEN queue' = [queue EXCEPT ![sub_job] = @ + 1]
                ELSE queue' = queue
          /\ (sub_pc' # sub_pc /\ sub_pc' = "tokened") => sub_pc = "enqueued"]_vars

\* A submission returned "queued": its history row is there, its message was
\* sent once
C12_Witness ==
    \E j \in DOMAIN tasks :
        /\ j \in history
        /\ sub_pc = "idle"
        /\ queue[j] + deliveries[j] = 1

\* The row of job j is pending, no request is serving it and no message of it
\* was ever sent
StuckPending(j) ==
    /\ j \in DOMAIN tasks
    /\ tasks[j].status = "pending"
    /\ sub_job # j
    /\ queue[j] + deliveries[j] = 0

\* C13: a job left pending without a message by a submission whose enqueue
\* failed is eventually given a message.
C13_StuckPendingReenqueued ==
    \A j \in Jobs : StuckPending(j) ~> (queue[j] > 0)

\* ------------------------------------------------------------ status queries

\* What the snapshot r of a job's row has to look like in each status
WellFormed(r) ==
    /\ r.status = "pending"
       => /\ r.started_at = NoTime /\ r.completed_at = NoTime
          /\ r.analysis_result = "None" /\ r.error_message = "None"
    /\ r.status = "processing"
       => /\ r.started_at # NoTime /\ r.completed_at = NoTime
          /\ r.analysis_result = "None" /\ r.error_message = "None"
          /\ r.duration_seconds = NoTime
    /\ r.status = "completed"
       => /\ r.analysis_result # "None" /\ r.completed_at # NoTime
          /\ r.duration_seconds # NoTime
    /\ r.status = "failed"
       => r.error_message # "None" /\ r.completed_at # NoTime

\* C14: whenever a status query reads a job, in whatever state the worker
\* runs are, the snapshot it returns is well formed for its status.
C14_UntornSnapshot ==
    \A j \in DOMAIN tasks : WellFormed(get_task_status(j).body)

\* With one delivery per message every snapshot is well formed
OnceUntornSnapshot ==
    \A j \in DOMAIN tasks : Once(j) => WellFormed(get_task_status(j).body)

\* ------------------------------------------------------------------ cleanup

\* The jobs whose row a step deletes
Purged == (DOMAIN tasks) \ (DOMAIN tasks')

\* A cleanup run commits: it ends and rows are gone
SweepCommits == sweep_pc # "idle" /\ sweep_pc' = "idle" /\ Purged # {}

C16_FailedRetention ==
    [][/\ (sweep_pc = "idle" /\ sweep_pc' = "old")
          => \A j \in DOMAIN tasks :
               (/\ tasks[j].status = "failed"
                /\ tasks[j].completed_at # NoTime
                /\ tasks[j].completed_at < sweep_cutoff')
               => j \in sweep_todo'
       /\ \A j \in Purged :
            tasks[j].status = "failed" => tasks[j].completed_at < now]_vars

\* C17: a job's row is deleted only after its document, and not before its
\* history rows: the step that deletes the row finds no document of the job and
\* leaves no history row of it.
C17_ArtifactsBeforeRecord ==
    [][\A j \in Purged : j \notin files /\ j \notin history']_vars

\* C18: a cleanup run in which the removal of a document failed still deletes,
\* when it commits, the row and the history rows of every job it went through.
C18_FileFailureTolerated ==
    [][(SweepCommits /\ sweep_kept # {})
       => \A j \in sweep_tasks : j \notin DOMAIN tasks' /\ j \notin history']_vars

\* cleanup_old_tasks in which the removal of a document failed still deletes
\* the rows and history rows of the jobs it went through
OldSweepFileFailureTolerated ==
    [][(sweep_pc = "old" /\ SweepCommits /\ sweep_kept # {})
       => \A j \in sweep_tasks : j \notin DOMAIN tasks' /\ j \notin history']_vars

\* C19: every history row refers to a job whose row exists, and no step
\* deletes a history row of a job whose row stays.
C19_HistoryFollowsJob ==
    /\ [](history \subseteq DOMAIN tasks)
    /\ [][\A j \in history \ history' : j \notin DOMAIN tasks']_vars

\* C20: the statements of analyze_document and the read endpoints change no
\* column of a row that exists.
C20_SubmissionWritesNothing ==
    [][sub_pc' # sub_pc => \A j \in Kept : tasks'[j] = tasks[j]]_vars

\* ------------------------------------------------------ timestamps, duration

\* C21: an execution of the task that loaded a job in processing, and finds it
\* in processing, leaves it in processing with the started_at it had.
C21_RedeliveryKeepsStartedAt ==
    [][\A w \in Workers :
          (/\ pc[w] = "loaded"
           /\ pc'[w] # "loaded"
           /\ task_record[w].status = "processing"
           /\ cur[w] \in Kept
           /\ tasks[cur[w]].status = "processing")
          => /\ tasks'[cur[w]].status = "processing"
             /\ tasks'[cur[w]].started_at = tasks[cur[w]].started_at]_vars

\* C22: a job's started_at is not after its completed_at when both are set.
C22_StartedBeforeCompleted ==
    \A j \in DOMAIN tasks :
        (tasks[j].started_at # NoTime /\ tasks[j].completed_at # NoTime)
        => tasks[j].started_at <= tasks[j].completed_at

\* C23: the duration of a job in a terminal status that was started is its
\* completed_at less its started_at, and a duration that was written is not
\* written again.
C23_DurationDerivedOnce ==
    /\ [](\A j \in DOMAIN tasks :
            (tasks[j].status \in Terminal /\ tasks[j].started_at # NoTime)
            => tasks[j].duration_seconds
                 = tasks[j].completed_at - tasks[j].started_at)
    /\ [][\A j \in Kept :
            tasks[j].duration_seconds # NoTime
            => tasks'[j].duration_seconds = tasks[j].duration_seconds]_vars

\* C29: between its commit of processing and its terminal commit a task writes
\* nothing to the job table: leaving run_crew writes nothing, and what it
\* writes after run_crew is its own job's row in a terminal status.
C29_ProgressIsAdvisory ==
    [][\A w \in Workers :
          /\ (pc[w] = "running" /\ pc'[w] # "running") => tasks' = tasks
          /\ (pc[w] \in {"storing", "failing"} /\ pc'[w] # pc[w] /\ tasks' # tasks)
             => /\ DOMAIN tasks' = DOMAIN tasks
                /\ tasks'[cur[w]].status \in Terminal
                /\ \A j \in (DOMAIN tasks) \ {cur[w]} : tasks'[j] = tasks[j]]_vars

\* A task is inside run_crew, its progress reported, and the row is as its
\* commit of processing left it
C29_Witness ==
    \E w \in Workers :
        /\ pc[w] = "running"
        /\ celery_meta[MsgId(cur[w])].state = "PROCESSING"
        /\ cur[w] \in DOMAIN tasks
        /\ tasks[cur[w]].status = "processing"
        /\ tasks[cur[w]].analysis_result = "None"

\* C30: the row a cleanup run deletes is in a terminal status when the
\* deletion is committed.
C30_SweepDeletesTerminalOnly ==
    [][\A j \in Purged : tasks[j].status \in Terminal]_vars

\* ------------------------------------------------------ absent and purged jobs

\* C25: a delivery of a job whose row is not in the table ends at once: no pool
\* process goes on with it (run_crew is not entered), no row, history row or
\* document is created or changed, and the task returns instead of raising.
C25_AbsentJobDiscarded ==
    [][\A j \in Jobs :
          (deliveries'[j] > deliveries[j] /\ j \notin DOMAIN tasks)
          => /\ pc' = pc /\ cur' = cur
             /\ tasks' = tasks /\ history' = history /\ files' = files
             /\ celery_meta'[MsgId(j)].state = "SUCCESS"]_vars

\* A message of a purged job was delivered and the task returned "not found"
C25_Witness ==
    \E j \in Jobs :
        /\ j \notin DOMAIN tasks
        /\ celery_meta[MsgId(j)] = Returned("None", "Task record not found")

\* C26: every row has an id that was given out, ids are given out once, and a
\* row appears only with the id given out in that step: the id of a row that
\* was deleted is in no later row.
C26_IdsNeverReused ==
    /\ [](\A j \in DOMAIN tasks : j < nextId)
    /\ [][/\ nextId' >= nextId
          /\ \A j \in (DOMAIN tasks') \ (DOMAIN tasks) :
               j = nextId /\ nextId' = nextId + 1]_vars

\* A task that had loaded a job found its row deleted when it came to commit
C26_Witness ==
    \E j \in Jobs :
        /\ j < nextId
        /\ j \notin DOMAIN tasks
        /\ celery_meta[MsgId(j)] = Raised("ObjectDeletedError")

\* ------------------------------------------------------ malformed submissions

\* C24: a request whose query field is missing or empty creates no row, stores
\* no document, and sends no message and inserts no history row afterwards.
C24_MalformedRejected ==
    [][/\ (sub_query' \in {"missing", ""} /\ sub_query' # sub_query)
          => /\ tasks' = tasks /\ files' = files
             /\ queue' = queue /\ history' = history
       /\ (sub_query \in {"missing", ""} /\ sub_pc' # sub_pc)
          => queue' = queue /\ history' = history]_vars

\* ------------------------------------------------------------ the read endpoints

\* C27: a request to get_task_status, get_task_result or list_tasks, for a job
\* that is there or for an id nobody has, leaves every task row, every history
\* row, the documents, the queue, the deliveries, the result backend and the
\* id counter as they were.
C27_ReadsChangeNothing ==
    [][response' # response
       => /\ tasks' = tasks /\ history' = history /\ files' = files
          /\ queue' = queue /\ deliveries' = deliveries
          /\ celery_meta' = celery_meta /\ nextId' = nextId]_vars

\* get_task_status has answered on a job whose message is being worked on
C27_Witness ==
    /\ response.op = "get_task_status"
    /\ response.out.code = 200
    /\ response.out.celery_status = "PROCESSING"
    /\ tasks[response.task_id].status = "processing"

\* C28: while the database answers, get_task_result answers 404 for an id no
\* row has; the stored status and the still-processing message and no result
\* for a pending or processing job; failed, the stored error_message and no
\* result for a failed job; and the stored analysis_result, completed_at and
\* duration_seconds for a completed job, and a result for no other job.
C28_ResultGatedOnStatus ==
    [][(response' # response /\ response'.op = "get_task_result" /\ store_up)
       => LET j == response'.task_id
              out == response'.out
          IN IF j \notin DOMAIN tasks
             THEN out.code = 404
             ELSE /\ out.code = 200
                  /\ out.status = tasks[j].status
                  /\ tasks[j].status \in {"pending", "processing"}
                     => /\ "result" \notin DOMAIN out
                        /\ "message" \in DOMAIN out
                        /\ out.message = "Task is still processing. Please try again later."
                  /\ tasks[j].status = "failed"
                     => /\ "result" \notin DOMAIN out
                        /\ "error" \in DOMAIN out
                        /\ out.error = tasks[j].error_message
                  /\ tasks[j].status = "completed"
                     => /\ "result" \in DOMAIN out
                        /\ out.result = tasks[j].analysis_result
                        /\ out.completed_at = tasks[j].completed_at
                        /\ out.duration_seconds = tasks[j].duration_seconds
                  /\ "result" \in DOMAIN out => tasks[j].status = "completed"]_vars

\* get_task_result has answered on a failed job whose row holds the result of
\* an earlier execution
C28_Witness ==
    /\ response.op = "get_task_result"
    /\ response.out.code = 200
    /\ response.out.status = "failed"
    /\ tasks[response.task_id].status = "failed"
    /\ tasks[response.task_id].analysis_result # "None"

\* ------------------------------------------------------------ dispatch token

\* C31: a job's celery_task_id is unset or the id of the job's message, and
\* once set it stays; no two jobs have the same celery_task_id; and the
\* request's write of celery_task_id (main.py lines 90-91) changes no other
\* column of any row, whatever the task has written before it.
C31_TokenConsistent ==
    /\ [](\A j \in DOMAIN tasks :
            /\ tasks[j].celery_task_id \in {NoId, MsgId(j)}
            /\ \A k \in (DOMAIN tasks) \ {j} :
                   tasks[j].celery_task_id # NoId
                   => tasks[j].celery_task_id # tasks[k].celery_task_id)
    /\ [][/\ \A j \in Kept :
                tasks[j].celery_task_id # NoId
                => tasks'[j].celery_task_id = tasks[j].celery_task_id
          /\ (sub_pc = "enqueued" /\ sub_pc' # sub_pc)
             => /\ DOMAIN tasks' = DOMAIN tasks
                /\ \A j \in DOMAIN tasks :
                       tasks'[j] = [tasks[j] EXCEPT !.celery_task_id =
                                                      tasks'[j].celery_task_id]]_vars

\* The request has written the token of its job between the task's load of
\* the row and the task's own write of it, and another job has its token
C31_Witness ==
    /\ sub_pc = "tokened"
    /\ sub_job \in DOMAIN tasks
    /\ tasks[sub_job].celery_task_id = MsgId(sub_job)
    /\ \E w \in Workers :
           /\ cur[w] = sub_job
           /\ pc[w] = "loaded"
           /\ task_record[w].celery_task_id = NoId
    /\ \E k \in (DOMAIN tasks) \ {sub_job} : tasks[k].celery_task_id = MsgId(k)

\* ------------------------------------------------------- failure is terminal

\* A step in which no execution of the task retries: run_crew (line 82) is
\* entered only from the commit of lines 67-70, the row is loaded only for a
\* message the pool has just handed out, an execution in the except block
\* (lines 104-122) only ends, and no step of an execution sends a message.
NotRetried ==
    /\ \A w \in Workers :
          /\ (pc'[w] = "running" /\ pc[w] # "running") => pc[w] = "loaded"
          /\ (pc'[w] = "loaded" /\ pc[w] # "loaded")
             => /\ pc[w] = "idle"
                /\ \E j \in DOMAIN deliveries :
                       /\ deliveries'[j] = deliveries[j] + 1
                       /\ queue'[j] = queue[j] - 1
          /\ pc[w] = "failing" => pc'[w] \in {"failing", "idle"}
    /\ pc' # pc => \A j \in DOMAIN queue : queue'[j] <= queue[j]

\* A step that leaves every failed job failed unless it deletes the job
FailedStays ==
    \A j \in Kept : tasks[j].status = "failed" => tasks'[j].status = "failed"

\* C32: an execution of the task enters run_crew at most once, after run_crew
\* raised it neither enters it again nor sends the job's message again, and a
\* failed job stays failed until a cleanup run deletes it.
C32_FailureTerminal == [][NotRetried /\ FailedStays]_vars

\* No execution of the task retries: the first two parts of C32 on their own
WorkerNeverRetries == [][NotRetried]_vars

\* A failed job whose message the broker handed out once stays failed
OnceFailedStays ==
    [][\A j \in Kept : (Once(j) /\ tasks[j].status = "failed")
                        => tasks'[j].status = "failed"]_vars

====
